---- MODULE Spec2Model ----
(***************************************************************************)
(* Fleet tyre-maintenance savings calculator (vanservicing.py).            *)
(*                                                                         *)
(* The program computes with Python floats (IEEE-754 binary64).  Numbers   *)
(* are modelled as binary64 values: a sign, a 53-bit significand and an    *)
(* exponent, with every arithmetic operation rounded to nearest, ties to   *)
(* even.  Significands do not fit 32-bit integers, so naturals are      *)
(* kept as little-endian sequences of 15-bit limbs.  Subnormals, overflow, *)
(* infinities and NaN are outside the model: every quantity that occurs    *)
(* lies between 2^-60 and 2^60 in magnitude, or is zero.                   *)
(*                                                                         *)
(* The(S) is the element of a one-element set.  {e : x \in {a}} evaluates  *)
(* a once and names its value x in e; it is used where Python binds a      *)
(* local name to a computed value.                                         *)
(***************************************************************************)
EXTENDS Integers, Sequences, FiniteSets, TLC

The(S) == CHOOSE v \in S : TRUE

-----------------------------------------------------------------------------
(* Natural numbers of arbitrary size: <<l1, l2, ...>> is l1 + l2*Base + ... *)
(* with no leading zero limb; <<>> is 0.                                    *)

LimbBits == 15
Precision == 53

RECURSIVE Pow2(_)
Pow2(n) == IF n = 0 THEN 1 ELSE 2 * Pow2(n - 1)

Base == Pow2(LimbBits)

\* the size of one quotient digit of a division
DigitBits == LimbBits - 1

RECURSIVE BNorm(_)
BNorm(a) ==
    IF a = <<>> THEN <<>>
    ELSE IF a[Len(a)] = 0 THEN BNorm(SubSeq(a, 1, Len(a) - 1)) ELSE a

RECURSIVE BFromInt(_)
BFromInt(n) == IF n = 0 THEN <<>> ELSE <<n % Base>> \o BFromInt(n \div Base)

RECURSIVE BToInt(_)
BToInt(a) == IF a = <<>> THEN 0 ELSE a[1] + Base * BToInt(Tail(a))

Limb(a, i) == IF i <= Len(a) THEN a[i] ELSE 0

RECURSIVE BAddC(_, _, _, _)
BAddC(a, b, i, c) ==
    IF i > Len(a) /\ i > Len(b)
    THEN (IF c = 0 THEN <<>> ELSE <<c>>)
    ELSE <<(Limb(a, i) + Limb(b, i) + c) % Base>>
             \o BAddC(a, b, i + 1, (Limb(a, i) + Limb(b, i) + c) \div Base)

BAdd(a0, b0) == The({BAddC(a, b, 1, 0) : a \in {a0}, b \in {b0}})

RECURSIVE BSubC(_, _, _, _)
BSubC(a, b, i, c) ==
    IF i > Len(a) THEN <<>>
    ELSE IF Limb(a, i) - Limb(b, i) - c < 0
         THEN <<Limb(a, i) - Limb(b, i) - c + Base>> \o BSubC(a, b, i + 1, 1)
         ELSE <<Limb(a, i) - Limb(b, i) - c>> \o BSubC(a, b, i + 1, 0)

\* a - b for a >= b
BSub(a0, b0) == The({BNorm(BSubC(a, b, 1, 0)) : a \in {a0}, b \in {b0}})

RECURSIVE BCmpAt(_, _, _)
BCmpAt(a, b, i) ==
    IF i = 0 THEN 0
    ELSE IF a[i] < b[i] THEN -1
    ELSE IF a[i] > b[i] THEN 1
    ELSE BCmpAt(a, b, i - 1)

\* -1, 0 or 1 as a < b, a = b, a > b
BCmp(a0, b0) ==
    The({IF Len(a) < Len(b) THEN -1
         ELSE IF Len(a) > Len(b) THEN 1
         ELSE BCmpAt(a, b, Len(a)) : a \in {a0}, b \in {b0}})

RECURSIVE BMulSmallC(_, _, _, _)
BMulSmallC(a, k, i, c) ==
    IF i > Len(a)
    THEN (IF c = 0 THEN <<>> ELSE <<c>>)
    ELSE <<(a[i] * k + c) % Base>> \o BMulSmallC(a, k, i + 1, (a[i] * k + c) \div Base)

\* a * k for 0 <= k < Base
BMulSmall(a0, k0) ==
    The({IF k = 0 THEN <<>> ELSE BMulSmallC(a, k, 1, 0) : a \in {a0}, k \in {k0}})

RECURSIVE Zeros(_)
Zeros(n) == IF n = 0 THEN <<>> ELSE <<0>> \o Zeros(n - 1)

\* a * Base^n
BShiftLimbs(a0, n) == The({IF a = <<>> THEN <<>> ELSE Zeros(n) \o a : a \in {a0}})

RECURSIVE BMulAt(_, _, _)
BMulAt(a, b, j) ==
    IF j > Len(b) THEN <<>>
    ELSE BAdd(BShiftLimbs(BMulSmall(a, b[j]), j - 1), BMulAt(a, b, j + 1))

BMul(a0, b0) == The({BMulAt(a, b, 1) : a \in {a0}, b \in {b0}})

\* a * 2^n
BShl(a, n) == BShiftLimbs(BMulSmall(a, Pow2(n % LimbBits)), n \div LimbBits)

RECURSIVE BDivSmallAt(_, _, _, _)
BDivSmallAt(a, k, i, r) ==
    IF i = 0 THEN <<>>
    ELSE BDivSmallAt(a, k, i - 1, (r * Base + a[i]) % k) \o <<(r * Base + a[i]) \div k>>

\* a \div k for 0 < k <= Base
BDivSmall(a0, k0) ==
    The({BNorm(BDivSmallAt(a, k, Len(a), 0)) : a \in {a0}, k \in {k0}})

\* a \div 2^n
BShr(a0, n) ==
    The({IF n \div LimbBits >= Len(a) THEN <<>>
         ELSE BDivSmall(SubSeq(a, (n \div LimbBits) + 1, Len(a)), Pow2(n % LimbBits))
         : a \in {a0}})

RECURSIVE SmallBitLen(_)
SmallBitLen(n) == IF n = 0 THEN 0 ELSE 1 + SmallBitLen(n \div 2)

BBitLen(a0) ==
    The({IF a = <<>> THEN 0 ELSE (Len(a) - 1) * LimbBits + SmallBitLen(a[Len(a)])
         : a \in {a0}})

BOne == <<1>>

\* the quotient digit d and remainder of R by b, from an estimate d <= R \div b
RECURSIVE BDigitFix(_, _, _)
BDigitFix(rem0, b, d0) ==
    The({IF BCmp(rem, b) >= 0 THEN BDigitFix(BSub(rem, b), b, d + 1)
         ELSE [d |-> d, rem |-> rem] : rem \in {rem0}, d \in {d0}})

\* an estimate from below of R \div b, from the leading bits of R and b
BDigitEstimate(R, b, t) == BToInt(BShr(R, t)) \div (BToInt(BShr(b, t)) + 1)

\* R \div b and R % b for b of at least LimbBits bits and R < b * 2^DigitBits
BDigit(R0, b) ==
    The({BDigitFix(BSub(R, BMulSmall(b, est)), b, est)
         : R \in {R0}, est \in {BDigitEstimate(R0, b, BBitLen(b) - LimbBits)}})

\* floor((q * b + r) * 2^(n * DigitBits) / b) and whether the division left a
\* remainder, for r < b: one digit of DigitBits bits per step
RECURSIVE BFracDiv(_, _, _, _)
BFracDiv(r0, b, n, q0) ==
    The({IF n = 0 THEN [q |-> q, inexact |-> r # <<>>]
         ELSE The({BFracDiv(g.rem, b, n - 1, BAdd(BShl(q, DigitBits), BFromInt(g.d)))
                   : g \in {BDigit(BShl(r, DigitBits), b)}})
         : r \in {r0}, q \in {q0}})

-----------------------------------------------------------------------------
(* binary64 values: (-1)^s * m * 2^e with m = 0 or 2^52 <= m < 2^53.        *)
(* [s |-> 0, m |-> <<>>, e |-> 0] is zero.                                  *)

FZero == [s |-> 0, m |-> <<>>, e |-> 0]

\* q + 1, renormalised when the carry runs through the whole significand
FRoundedUp(s, q1, e) ==
    The({IF BBitLen(v) > Precision THEN [s |-> s, m |-> BShr(v, 1), e |-> e + 1]
         ELSE [s |-> s, m |-> v, e |-> e] : v \in {q1}})

\* c is -1, 0, 1 as the part rounded away is below, at or above half a unit
\* of q; "sticky" says that more was dropped before
FRoundDigit(s, q, e, c0, sticky) ==
    The({IF c > 0 \/ (c = 0 /\ (sticky \/ q[1] % 2 = 1))
         THEN FRoundedUp(s, BAdd(q, BOne), e)
         ELSE [s |-> s, m |-> q, e |-> e] : c \in {c0}})

\* round (-1)^s * M * 2^E, M of Precision + sh bits
FRoundShift(s, M, E, sticky, sh) ==
    IF sh <= 0
    THEN [s |-> s, m |-> BShl(M, -sh), e |-> E + sh]
    ELSE The({FRoundDigit(s, q, E + sh,
                          BCmp(BSub(M, BShl(q, sh)), BShl(BOne, sh - 1)), sticky)
              : q \in {BShr(M, sh)}})

\* round (-1)^s * (M + sticky) * 2^E to nearest, ties to even; "sticky"
\* says that a non-zero amount below the last bit of M was dropped
FRound(s, M0, E, sticky) ==
    The({IF M = <<>> THEN FZero
         ELSE FRoundShift(s, M, E, sticky, BBitLen(M) - Precision) : M \in {M0}})

\* int -> float conversion
FFromInt(n) ==
    IF n < 0 THEN FRound(1, BFromInt(-n), 0, FALSE)
             ELSE FRound(0, BFromInt(n), 0, FALSE)

FIsZero(x) == x.m = <<>>

FSign(x0) == The({IF x.m = <<>> THEN 0 ELSE IF x.s = 1 THEN -1 ELSE 1 : x \in {x0}})

FNeg(x0) == The({IF x.m = <<>> THEN x ELSE [x EXCEPT !.s = 1 - x.s] : x \in {x0}})

FMul(x0, y0) ==
    The({IF x.m = <<>> \/ y.m = <<>> THEN FZero
         ELSE FRound((x.s + y.s) % 2, BMul(x.m, y.m), x.e + y.e, FALSE)
         : x \in {x0}, y \in {y0}})

\* the quotient of the significands, to 4 * DigitBits = 56 bits after the
\* leading digit, then rounded
FDivQuotient(s, e, d0) == The({FRound(s, d.q, e, d.inexact) : d \in {d0}})

FDivFrom(s, e, first0, b) ==
    The({FDivQuotient(s, e, BFracDiv(first.rem, b, 4, BFromInt(first.d)))
         : first \in {first0}})

\* x / y for y # 0
FDiv(x0, y0) ==
    The({IF x.m = <<>> THEN FZero
         ELSE FDivFrom((x.s + y.s) % 2, x.e - y.e - 4 * DigitBits,
                       BDigitFix(x.m, y.m, 0), y.m)
         : x \in {x0}, y \in {y0}})

\* the sum of (-1)^sx * Mx * 2^e and (-1)^sy * My * 2^e, c comparing Mx and My
FAddAligned(sx, Mx, sy, My, e, c) ==
    FRound(IF sx = sy \/ c > 0 THEN sx ELSE sy,
           IF sx = sy THEN BAdd(Mx, My)
           ELSE IF c >= 0 THEN BSub(Mx, My) ELSE BSub(My, Mx),
           e, FALSE)

FAddShifted(sx, Mx0, sy, My0, e) ==
    The({FAddAligned(sx, Mx, sy, My, e, BCmp(Mx, My)) : Mx \in {Mx0}, My \in {My0}})

FAdd(x0, y0) ==
    The({IF x.m = <<>> THEN y
         ELSE IF y.m = <<>> THEN x
         ELSE IF x.e < y.e
              THEN FAddShifted(x.s, x.m, y.s, BShl(y.m, y.e - x.e), x.e)
              ELSE FAddShifted(x.s, BShl(x.m, x.e - y.e), y.s, y.m, y.e)
         : x \in {x0}, y \in {y0}})

FSub(x, y) == FAdd(x, FNeg(y))

\* the decimal literal n / tenPow of the source, read as the nearest float
FLit(n, tenPow) == FDiv(FFromInt(n), FFromInt(tenPow))

\* q, or q + 1 when the part dropped (compared with a half by c) rounds up
Fmt2Digit(q0, c) == The({IF c > 0 \/ (c = 0 /\ q % 2 = 1) THEN q + 1 ELSE q : q \in {q0}})

\* N * 2^-sh rounded to an integer, ties to even (sh > 0)
Fmt2Shift(N0, sh) ==
    The({The({Fmt2Digit(BToInt(q), BCmp(BSub(N, BShl(q, sh)), BShl(BOne, sh - 1)))
              : q \in {BShr(N, sh)}})
         : N \in {N0}})

\* format(x, ",.2f"): the exact value of x rounded to two decimals, ties
\* to even, as a signed number of hundredths
Fmt2Magnitude(x) ==
    IF x.e >= 0 THEN BToInt(BShl(BMulSmall(x.m, 100), x.e))
    ELSE Fmt2Shift(BMulSmall(x.m, 100), -x.e)

Fmt2(x0) ==
    The({IF x.m = <<>> THEN 0
         ELSE IF x.s = 1 THEN -Fmt2Magnitude(x) ELSE Fmt2Magnitude(x) : x \in {x0}})

-----------------------------------------------------------------------------
(* Constants and fixed assumptions of the calculation                       *)

\* the US gallon for the imperial one
LitresPerUsGallon == FLit(378541, 100000)

LITRES_PER_GALLON == FLit(454609, 100000)

DEFAULT_PARAMS ==
    [van \in {"Small Van", "Medium Van", "Large Van", "Long Wheelbase Van"} |->
        CASE van = "Small Van" ->
                [mpg_std |-> FLit(543, 10), mpg_under |-> FLit(510, 10),
                 tyre_cost_std |-> FLit(2400, 10), tyre_cost_under |-> FLit(2832, 10)]
          [] van = "Medium Van" ->
                [mpg_std |-> FLit(448, 10), mpg_under |-> FLit(421, 10),
                 tyre_cost_std |-> FLit(3200, 10), tyre_cost_under |-> FLit(3776, 10)]
          [] van = "Large Van" ->
                [mpg_std |-> FLit(409, 10), mpg_under |-> FLit(384, 10),
                 tyre_cost_std |-> FLit(3800, 10), tyre_cost_under |-> FLit(4484, 10)]
          [] van = "Long Wheelbase Van" ->
                [mpg_std |-> FLit(325, 10), mpg_under |-> FLit(306, 10),
                 tyre_cost_std |-> FLit(3800, 10), tyre_cost_under |-> FLit(4484, 10)]]

DEFAULT_TYRE_LIFESPAN_MILES == 20000

TenThousand == FFromInt(10000)

\* what a call does: return a value, or raise
Returned(v) == [raised |-> "none", value |-> v]
Raised(exc) == [raised |-> exc, value |-> FZero]

-----------------------------------------------------------------------------
(* Helper functions                                                         *)

\* gallons = 10000 / mpg; cost = gallons * LITRES_PER_GALLON * price_per_litre
FuelCost10k(mpg, price_per_litre) ==
    FMul(FMul(FDiv(TenThousand, mpg), LITRES_PER_GALLON), price_per_litre)

\* the guard written with "<" for "<="
FuelCostStrictGuard(mpg_std, mpg_under, price_per_litre) ==
    IF FSign(mpg_std) < 0 \/ FSign(mpg_under) < 0 \/ FSign(price_per_litre) < 0
    THEN Returned(FZero)
    ELSE IF FIsZero(mpg_std) \/ FIsZero(mpg_under)
    THEN Raised("ZeroDivisionError")
    ELSE Returned(FSub(FuelCost10k(mpg_under, price_per_litre),
                       FuelCost10k(mpg_std, price_per_litre)))

\* a division by a zero mpg raises ZeroDivisionError; the guard keeps the
\* divisions from being reached with one
calculate_extra_fuel_cost_10k(mpg_std, mpg_under, price_per_litre) ==
    IF FSign(mpg_std) <= 0 \/ FSign(mpg_under) <= 0 \/ FSign(price_per_litre) <= 0
    THEN Returned(FZero)
    ELSE IF FIsZero(mpg_std) \/ FIsZero(mpg_under)
    THEN Raised("ZeroDivisionError")
    ELSE Returned(FSub(FuelCost10k(mpg_under, price_per_litre),
                       FuelCost10k(mpg_std, price_per_litre)))

\* cost_diff_lifespan / (lifespan_miles / 10000), the divisor already computed
TyreCostPerCycles(cost_diff_lifespan, cycles0) ==
    The({IF FIsZero(cycles) THEN Raised("ZeroDivisionError")
         ELSE Returned(FDiv(cost_diff_lifespan, cycles)) : cycles \in {cycles0}})

\* the difference taken the other way round
TyreCostSwapped(tyre_cost_std, tyre_cost_under, lifespan_miles) ==
    IF FSign(lifespan_miles) <= 0
    THEN Returned(FZero)
    ELSE TyreCostPerCycles(FSub(tyre_cost_std, tyre_cost_under),
                           FDiv(lifespan_miles, TenThousand))

calculate_extra_tyre_cost_10k(tyre_cost_std, tyre_cost_under, lifespan_miles) ==
    IF FSign(lifespan_miles) <= 0
    THEN Returned(FZero)
    ELSE TyreCostPerCycles(FSub(tyre_cost_under, tyre_cost_std),
                           FDiv(lifespan_miles, TenThousand))

-----------------------------------------------------------------------------
(* savings_per_10k_summary is a dict: a sequence of key/value entries in    *)
(* insertion order                                                          *)

DictHas(d, k) == \E i \in 1..Len(d) : d[i].key = k

DictGet(d, k) == d[CHOOSE i \in 1..Len(d) : d[i].key = k].val

DictSet(d, k, v) ==
    IF DictHas(d, k)
    THEN [i \in 1..Len(d) |-> IF d[i].key = k THEN [key |-> k, val |-> v] ELSE d[i]]
    ELSE Append(d, [key |-> k, val |-> v])

\* the mileage field's initial value
DefaultMileage(van_type_name) ==
    CASE van_type_name = "Small Van" -> 10000
      [] van_type_name = "Medium Van" -> 12000
      [] van_type_name = "Large Van" -> 15000
      [] OTHER -> 20000

\* the saving per 10k miles added to the mileage factor, not multiplied
AnnualSavingsAddsUnit(miles, total_extra_cost_10k, count) ==
    FMul(FAdd(FDiv(FFromInt(miles), TenThousand), total_extra_cost_10k), FFromInt(count))

\* the count added, not multiplied
AnnualSavingsAddsCount(miles, total_extra_cost_10k, count) ==
    FAdd(FMul(FDiv(FFromInt(miles), TenThousand), total_extra_cost_10k), FFromInt(count))

\* annual_savings = (miles / 10000) * total_extra_cost_10k * count
AnnualSavings(miles, total_extra_cost_10k, count) ==
    FMul(FMul(FDiv(FFromInt(miles), TenThousand), total_extra_cost_10k), FFromInt(count))

\* lines 101-106, with the saving per 10k miles and the annual saving computed
CalculatedResult(van_type_name, summary, total_extra_cost_10k, annual_savings0) ==
    The({[raised |-> "none", ret |-> annual_savings,
          summary |-> DictSet(summary, van_type_name, total_extra_cost_10k),
          written |-> <<Fmt2(annual_savings), Fmt2(total_extra_cost_10k)>>]
         : annual_savings \in {annual_savings0}})

\* lines 100-106, with the two extra costs computed
CalculatedFrom(van_type_name, count, miles, summary, extra_fuel_cost, extra_tyre_cost) ==
    IF extra_fuel_cost.raised # "none"
    THEN [raised |-> extra_fuel_cost.raised, ret |-> FZero,
          summary |-> summary, written |-> <<>>]
    ELSE IF extra_tyre_cost.raised # "none"
    THEN [raised |-> extra_tyre_cost.raised, ret |-> FZero,
          summary |-> summary, written |-> <<>>]
    ELSE The({CalculatedResult(van_type_name, summary, total_extra_cost_10k,
                               AnnualSavings(miles, total_extra_cost_10k, count))
              : total_extra_cost_10k \in
                    {FAdd(extra_fuel_cost.value, extra_tyre_cost.value)}})

\* lines 98-106: the branch taken when count > 0 and miles > 0
CalculatedBranch(van_type_name, diesel_price, count, miles, summary) ==
    The({CalculatedFrom(van_type_name, count, miles, summary,
                        extra_fuel_cost, extra_tyre_cost)
         : extra_fuel_cost \in
               {calculate_extra_fuel_cost_10k(DEFAULT_PARAMS[van_type_name].mpg_std,
                                              DEFAULT_PARAMS[van_type_name].mpg_under,
                                              diesel_price)},
           extra_tyre_cost \in
               {calculate_extra_tyre_cost_10k(DEFAULT_PARAMS[van_type_name].tyre_cost_std,
                                              DEFAULT_PARAMS[van_type_name].tyre_cost_under,
                                              FFromInt(DEFAULT_TYRE_LIFESPAN_MILES))}})

\* the prompt branch returning the saving per 10k miles, not 0
PromptBranchReturnsUnit(van_type_name, diesel_price, count, miles, summary) ==
    The({[raised |-> "none", ret |-> r.ret,
          summary |-> DictSet(summary, van_type_name, FZero),
          written |-> <<"Enter count and mileage to calculate savings.">>]
         : r \in {CalculatedBranch(van_type_name, diesel_price, 1, 10000, summary)}})

\* the prompt branch recording the saving per 10k miles, not 0
PromptBranchKeepsUnit(van_type_name, diesel_price, count, miles, summary) ==
    The({[raised |-> "none", ret |-> FZero, summary |-> r.summary,
          written |-> <<"Enter count and mileage to calculate savings.">>]
         : r \in {CalculatedBranch(van_type_name, diesel_price, 1, 10000, summary)}})

\* lines 108-110: the branch taken otherwise
PromptBranch(van_type_name, diesel_price, count, miles, summary) ==
    [raised |-> "none", ret |-> FZero,
     summary |-> DictSet(summary, van_type_name, FZero),
     written |-> <<"Enter count and mileage to calculate savings.">>]

\* the catalog read with a default: no KeyError, an unknown name is prompted
\* for like any other
ProcessVanTypeNoKeyError(van_type_name, diesel_price, count, miles, summary) ==
    IF van_type_name \in DOMAIN DEFAULT_PARAMS /\ count > 0 /\ miles > 0
    THEN CalculatedBranch(van_type_name, diesel_price, count, miles, summary)
    ELSE PromptBranch(van_type_name, diesel_price, count, miles, summary)

\* process_van_type, given the values the two number inputs hold (count,
\* miles) and the summary dict as it is at the call.  "written" is what the
\* call shows: the annual saving and the saving per 10k miles to two
\* decimals, or the prompt.  The catalog lookup comes first and raises
\* KeyError for a name that is not a key of DEFAULT_PARAMS.
process_van_type(van_type_name, diesel_price, count, miles, summary) ==
    IF van_type_name \notin DOMAIN DEFAULT_PARAMS
    THEN [raised |-> "KeyError", ret |-> FZero, summary |-> summary, written |-> <<>>]
    ELSE IF count > 0 /\ miles > 0
    THEN CalculatedBranch(van_type_name, diesel_price, count, miles, summary)
    ELSE PromptBranch(van_type_name, diesel_price, count, miles, summary)

-----------------------------------------------------------------------------
(* The page script                                                          *)

VARIABLES
    user_diesel_price,          \* the diesel price field, a float
    total_fleet_savings,        \* running total
    savings_per_10k_summary,    \* dict: van type -> saving per 10k miles
    calls,                      \* log of the process_van_type calls made
    pc,                         \* "process", "results", "done", "returned", "raised"
    shown,                      \* what the results section showed
    helper                      \* a direct call of a helper function

vars == <<user_diesel_price, total_fleet_savings, savings_per_10k_summary,
          calls, pc, shown, helper>>

\* the four calls of the script, in order
CallOrder == <<"Small Van", "Large Van", "Medium Van", "Long Wheelbase Van">>

MinPriceCents == 10
DefaultPriceCents == 151
PriceStepCents == 1
MileStep == 1000

MaxPriceSteps == 1
MaxCount == 1
MaxAggCount == 2
MaxMileSteps == 3
MaxCalls == 2
MaxLifespanFactor == 2

\* diesel prices the price field can hold (min_value 0.10)
PriceCents ==
    {MinPriceCents} \cup {DefaultPriceCents + PriceStepCents * k : k \in 0..MaxPriceSteps}

Counts == 0..MaxCount

Init ==
    /\ user_diesel_price \in {FLit(c, 100) : c \in PriceCents}
    /\ total_fleet_savings = FZero
    /\ savings_per_10k_summary = <<>>
    /\ calls = <<>>
    /\ pc = "process"
    /\ shown = [branch |-> "none"]
    /\ helper = [fn |-> "none"]

\* the assignment written "=" for "+="
AccumulateAssigns(total, ret) == ret

\* total_fleet_savings += <value returned>
Accumulate(total, ret) == FAdd(total, ret)

\* the log entry of a call; the number inputs are read only after the
\* catalog lookup, so a call that raised KeyError read neither
LogEntry(van_type_name, count, miles, r) ==
    IF r.raised = "KeyError"
    THEN [name |-> van_type_name, raised |-> r.raised]
    ELSE [name |-> van_type_name, count |-> count, miles |-> miles,
          raised |-> r.raised, ret |-> r.ret, written |-> r.written]

\* total_fleet_savings += process_van_type(van_type_name, user_diesel_price, col)
\* with the two number inputs holding count and miles; an exception leaves
\* the assignment undone and ends the script
Call(van_type_name, count, miles) ==
    \E r \in {process_van_type(van_type_name, user_diesel_price, count, miles,
                               savings_per_10k_summary)} :
        /\ calls' = Append(calls, LogEntry(van_type_name, count, miles, r))
        /\ savings_per_10k_summary' = r.summary
        /\ total_fleet_savings' =
               IF r.raised = "none" THEN Accumulate(total_fleet_savings, r.ret)
               ELSE total_fleet_savings
        /\ UNCHANGED <<user_diesel_price, shown, helper>>

ProcessNext ==
    /\ pc = "process"
    /\ Len(calls) < Len(CallOrder)
    /\ \E count \in Counts :
       \E miles \in {0, DefaultMileage(CallOrder[Len(calls) + 1])} :
           Call(CallOrder[Len(calls) + 1], count, miles)
    /\ pc' = IF Len(calls) + 1 = Len(CallOrder) THEN "results" ELSE "process"

\* the summary items: "<van type>: <saving to two decimals>" for every entry
\* of the dict with saving > 0, in the dict's order
RECURSIVE SummaryItems(_)
SummaryItems(d) ==
    IF d = <<>> THEN <<>>
    ELSE IF FSign(d[1].val) > 0
         THEN <<[van_type |-> d[1].key, saving |-> Fmt2(d[1].val)]>> \o SummaryItems(Tail(d))
         ELSE SummaryItems(Tail(d))

\* the test written ">= 0" for "> 0"
HasSavingsOrZero(total) == FSign(total) >= 0

\* if total_fleet_savings > 0
HasSavings(total) == FSign(total) > 0

Results ==
    /\ pc = "results"
    /\ shown' = IF HasSavings(total_fleet_savings)
                THEN [branch |-> "results", metric |-> Fmt2(total_fleet_savings),
                      summary_items |-> SummaryItems(savings_per_10k_summary)]
                ELSE [branch |-> "info"]
    /\ pc' = "done"
    /\ UNCHANGED <<user_diesel_price, total_fleet_savings, savings_per_10k_summary,
                   calls, helper>>

Next == ProcessNext \/ Results

Spec == Init /\ [][Next]_vars

-----------------------------------------------------------------------------
(* process_van_type under any caller.  A caller may pass a name the catalog *)
(* does not hold; the number inputs take any count and mileage.             *)

Unregistered == {"Minibus"}

AnyNames == DOMAIN DEFAULT_PARAMS \cup Unregistered

SegmentMiles == {MileStep * k : k \in 0..MaxMileSteps}

\* one call, for one segment
ProcessSegment ==
    /\ pc = "process"
    /\ calls = <<>>
    /\ \E van_type_name \in AnyNames :
          IF van_type_name \in DOMAIN DEFAULT_PARAMS
          THEN \E count \in 0..MaxAggCount : \E miles \in SegmentMiles :
                   Call(van_type_name, count, miles)
          ELSE Call(van_type_name, 0, 0)
    /\ pc' = IF calls'[1].raised = "none" THEN "returned" ELSE "raised"

NextSegment == ProcessSegment

SpecSegment == Init /\ [][NextSegment]_vars

\* up to MaxCalls calls in any order, names repeated or not, each for no
\* vans or MaxCount of them; an exception ends the run
ProcessAny ==
    /\ pc = "process"
    /\ Len(calls) < MaxCalls
    /\ \E van_type_name \in AnyNames :
          IF van_type_name \in DOMAIN DEFAULT_PARAMS
          THEN \E count \in {0, MaxCount} :
               \E miles \in {0, DefaultMileage(van_type_name)} :
                   Call(van_type_name, count, miles)
          ELSE Call(van_type_name, 0, 0)
    /\ pc' = IF calls'[Len(calls')].raised = "none" THEN "process" ELSE "raised"

NextCaller == ProcessAny

SpecCaller == Init /\ [][NextCaller]_vars

-----------------------------------------------------------------------------
(* The two helper functions called directly, on any arguments               *)

CatalogVans == DOMAIN DEFAULT_PARAMS

MpgArgs ==
    {DEFAULT_PARAMS[v].mpg_std : v \in CatalogVans}
        \cup {DEFAULT_PARAMS[v].mpg_under : v \in CatalogVans}
        \cup {FZero, FNeg(FLit(543, 10))}

PriceArgs == {FLit(c, 100) : c \in PriceCents \cup {-DefaultPriceCents, 0, 1}}

LifespanArgs ==
    {FFromInt(n) : n \in {-DEFAULT_TYRE_LIFESPAN_MILES, 0, 1}
                        \cup {DEFAULT_TYRE_LIFESPAN_MILES * k : k \in 1..MaxLifespanFactor}}

CallFuel ==
    /\ pc = "process"
    /\ \E mpg_std \in MpgArgs : \E mpg_under \in MpgArgs : \E price_per_litre \in PriceArgs :
          helper' = [fn |-> "calculate_extra_fuel_cost_10k",
                     mpg_std |-> mpg_std, mpg_under |-> mpg_under,
                     price_per_litre |-> price_per_litre,
                     result |-> calculate_extra_fuel_cost_10k(mpg_std, mpg_under,
                                                              price_per_litre)]
    /\ pc' = IF helper'.result.raised = "none" THEN "returned" ELSE "raised"
    /\ UNCHANGED <<user_diesel_price, total_fleet_savings, savings_per_10k_summary,
                   calls, shown>>

CallTyre ==
    /\ pc = "process"
    /\ \E std \in CatalogVans : \E under \in CatalogVans : \E lifespan_miles \in LifespanArgs :
          helper' = [fn |-> "calculate_extra_tyre_cost_10k",
                     tyre_cost_std |-> DEFAULT_PARAMS[std].tyre_cost_std,
                     tyre_cost_under |-> DEFAULT_PARAMS[under].tyre_cost_under,
                     lifespan_miles |-> lifespan_miles,
                     result |-> calculate_extra_tyre_cost_10k(
                                    DEFAULT_PARAMS[std].tyre_cost_std,
                                    DEFAULT_PARAMS[under].tyre_cost_under,
                                    lifespan_miles)]
    /\ pc' = IF helper'.result.raised = "none" THEN "returned" ELSE "raised"
    /\ UNCHANGED <<user_diesel_price, total_fleet_savings, savings_per_10k_summary,
                   calls, shown>>

NextHelpers == CallFuel \/ CallTyre

SpecHelpers == Init /\ [][NextHelpers]_vars

-----------------------------------------------------------------------------
(* Properties of the page script                                            *)

Active(c) == c.raised = "none" /\ c.count > 0 /\ c.miles > 0

\* the returned savings added up in call order, as the script adds them
RECURSIVE SumRet(_)
SumRet(log) ==
    IF log = <<>> THEN FZero
    ELSE FAdd(SumRet(SubSeq(log, 1, Len(log) - 1)), log[Len(log)].ret)

\* C1: at every point of the script total_fleet_savings is the sum of the
\* annual savings returned by the process_van_type calls made so far, and so
\* of all four once every van type has been processed
C1_TotalIsSumOfReturned == total_fleet_savings = SumRet(calls)

\* all four van types processed, each with a saving
C1_Witness ==
    /\ Len(calls) = Len(CallOrder)
    /\ \A i \in 1..Len(calls) : Active(calls[i])

\* C2: a call with count 0 or mileage 0 returns exactly 0
C2_ZeroCountOrMilesReturnsZero ==
    \A i \in 1..Len(calls) :
        (calls[i].count = 0 \/ calls[i].miles = 0)
            => calls[i].raised = "none" /\ calls[i].ret = FZero

\* count 0 with a mileage, and a count with mileage 0, have both been seen,
\* next to a call that did return a saving
C2_Witness ==
    /\ \E i \in 1..Len(calls) : calls[i].count = 0 /\ calls[i].miles > 0
    /\ \E i \in 1..Len(calls) : calls[i].count > 0 /\ calls[i].miles = 0
    /\ \E i \in 1..Len(calls) : FSign(calls[i].ret) > 0

\* the scenario of C9: price 1.51, one small van at 10000 miles, nothing else
C9_Scenario ==
    /\ pc = "done"
    /\ user_diesel_price = FLit(151, 100)
    /\ calls[1].name = "Small Van" /\ calls[1].count = 1 /\ calls[1].miles = 10000
    /\ \A i \in 2..Len(calls) : ~Active(calls[i])

C9_FuelDelta ==
    Fmt2(calculate_extra_fuel_cost_10k(DEFAULT_PARAMS["Small Van"].mpg_std,
                                       DEFAULT_PARAMS["Small Van"].mpg_under,
                                       user_diesel_price).value)

C9_TyreDelta ==
    Fmt2(calculate_extra_tyre_cost_10k(DEFAULT_PARAMS["Small Van"].tyre_cost_std,
                                       DEFAULT_PARAMS["Small Van"].tyre_cost_under,
                                       FFromInt(DEFAULT_TYRE_LIFESPAN_MILES)).value)

\* C9 as stated: in the scenario the fuel delta is 81.76, the tyre delta
\* 21.60, and unit, class and total saving are 103.36, to two decimals
C9_AsStated ==
    C9_Scenario =>
        /\ C9_FuelDelta = 8176
        /\ C9_TyreDelta = 2160
        /\ calls[1].written = <<10336, 10336>>
        /\ Fmt2(calls[1].ret) = 10336
        /\ Fmt2(total_fleet_savings) = 10336
        /\ shown.branch = "results" /\ shown.metric = 10336

\* C9 amended: in the scenario the fuel delta is 81.80, the tyre delta
\* 21.60, and unit, class and total saving are 103.40, to two decimals
C9_ScenarioValues ==
    C9_Scenario =>
        /\ C9_FuelDelta = 8180
        /\ C9_TyreDelta = 2160
        /\ calls[1].written = <<10340, 10340>>
        /\ Fmt2(calls[1].ret) = 10340
        /\ Fmt2(total_fleet_savings) = 10340
        /\ shown.branch = "results" /\ shown.metric = 10340

C9_Witness == C9_Scenario /\ shown.branch = "results"

ActiveNames == {calls[i].name : i \in {j \in 1..Len(calls) : Active(calls[j])}}

\* C10: once the script is done, the total is > 0 and the results branch
\* was taken exactly when some van type has count > 0 and mileage > 0, the
\* summary then lists exactly those van types; otherwise the total is 0 and
\* the prompt to enter fleet details was shown
C10_ResultsIffSomeActive ==
    pc = "done" =>
        /\ FSign(total_fleet_savings) > 0 <=> ActiveNames # {}
        /\ ActiveNames # {} =>
              /\ shown.branch = "results"
              /\ {shown.summary_items[i].van_type :
                      i \in 1..Len(shown.summary_items)} = ActiveNames
              /\ Len(shown.summary_items) = Cardinality(ActiveNames)
        /\ ActiveNames = {} =>
              /\ total_fleet_savings = FZero
              /\ shown.branch = "info"

\* results shown with some van types listed and some left out
C10_Witness ==
    /\ pc = "done"
    /\ shown.branch = "results"
    /\ Len(shown.summary_items) \in 1..(Len(CallOrder) - 1)

-----------------------------------------------------------------------------
(* Properties of process_van_type, one call                                 *)

\* the saving per 10k miles of a catalog van type at a diesel price
UnitSaving(van_type_name, diesel_price) ==
    FAdd(calculate_extra_fuel_cost_10k(DEFAULT_PARAMS[van_type_name].mpg_std,
                                       DEFAULT_PARAMS[van_type_name].mpg_under,
                                       diesel_price).value,
         calculate_extra_tyre_cost_10k(DEFAULT_PARAMS[van_type_name].tyre_cost_std,
                                       DEFAULT_PARAMS[van_type_name].tyre_cost_under,
                                       FFromInt(DEFAULT_TYRE_LIFESPAN_MILES)).value)

\* what process_van_type returns for the logged call's van type at the
\* price in force, with another count and mileage
ReturnedFor(c, count, miles) ==
    process_van_type(c.name, user_diesel_price, count, miles, <<>>).ret

\* the exact product of a float x >= 0 and a natural number n
ExactTimes(x, n) == [m |-> BMul(x.m, BFromInt(n)), e |-> x.e]

ExactAt(A, e) == BShl(A.m, A.e - e)

\* |A - B| * 2^k <= A for exact A, B >= 0: A and B are equal (k irrelevant)
\* or differ by at most 2^-k of A
ExactWithinAt(MA0, MB0, k) ==
    The({IF BCmp(MA, MB) >= 0 THEN BCmp(BShl(BSub(MA, MB), k), MA) <= 0
         ELSE BCmp(BShl(BSub(MB, MA), k), MA) <= 0 : MA \in {MA0}, MB \in {MB0}})

ExactWithin(A, B, k) ==
    IF A.e < B.e THEN ExactWithinAt(ExactAt(A, A.e), ExactAt(B, A.e), k)
    ELSE ExactWithinAt(ExactAt(A, B.e), ExactAt(B, B.e), k)

ExactEqual(A, B) ==
    IF A.e < B.e THEN BCmp(ExactAt(A, A.e), ExactAt(B, A.e)) = 0
    ELSE BCmp(ExactAt(A, B.e), ExactAt(B, B.e)) = 0

\* C5: the annual saving for twice the count is exactly twice the annual
\* saving, count 0 and mileage 0 included
C5_DoubleCountDoublesSaving ==
    \A i \in 1..Len(calls) :
        calls[i].raised = "none" =>
            ReturnedFor(calls[i], 2 * calls[i].count, calls[i].miles)
                = FMul(FFromInt(2), calls[i].ret)

C5_Witness ==
    /\ pc = "returned"
    /\ Active(calls[1]) /\ calls[1].count > 1 /\ FSign(calls[1].ret) > 0

\* C6 as stated: for any two mileages m1, m2 the annual savings s(m1), s(m2)
\* satisfy s(m1) * m2 = s(m2) * m1
C6_AsStated ==
    \A i \in 1..Len(calls) :
        calls[i].raised = "none" =>
            \A m2 \in SegmentMiles :
                ExactEqual(ExactTimes(calls[i].ret, m2),
                           ExactTimes(ReturnedFor(calls[i], calls[i].count, m2),
                                      calls[i].miles))

\* C6 amended: s(m1) * m2 and s(m2) * m1 are equal up to the rounding of the
\* float operations: they differ by at most 2^-50 of their size (and are
\* both 0 when a mileage or the count is 0)
C6_ProportionalUpToRounding ==
    \A i \in 1..Len(calls) :
        calls[i].raised = "none" =>
            \A m2 \in SegmentMiles :
                /\ ExactWithin(ExactTimes(calls[i].ret, m2),
                               ExactTimes(ReturnedFor(calls[i], calls[i].count, m2),
                                          calls[i].miles), 50)
                /\ (~Active(calls[i]) \/ m2 = 0) =>
                       ExactEqual(ExactTimes(calls[i].ret, m2),
                                  ExactTimes(ReturnedFor(calls[i], calls[i].count, m2),
                                             calls[i].miles))

\* a saving returned for one mileage that is not in exact proportion to the
\* saving for another
C6_Witness ==
    /\ pc = "returned"
    /\ Active(calls[1])
    /\ \E m2 \in SegmentMiles :
          /\ m2 > 0 /\ m2 # calls[1].miles
          /\ ~ExactEqual(ExactTimes(calls[1].ret, m2),
                         ExactTimes(ReturnedFor(calls[1], calls[1].count, m2),
                                    calls[1].miles))

\* C8 as stated: for a call with count 0 or mileage 0 the entry recorded in
\* savings_per_10k_summary is the van type's computed saving per 10k miles,
\* and the annual saving is 0
C8_AsStated ==
    \A i \in 1..Len(calls) :
        (calls[i].raised = "none" /\ ~Active(calls[i])) =>
            /\ DictHas(savings_per_10k_summary, calls[i].name)
            /\ DictGet(savings_per_10k_summary, calls[i].name)
                   = UnitSaving(calls[i].name, user_diesel_price)
            /\ calls[i].ret = FZero

\* C8 amended: the entry recorded is 0 for a call with count 0 or mileage 0
\* (whose annual saving is 0 too), and the computed saving per 10k miles
\* for a call with count > 0 and mileage > 0; beyond that it depends on
\* neither
C8_RecordedUnitSaving ==
    \A i \in 1..Len(calls) :
        calls[i].raised = "none" =>
            /\ DictHas(savings_per_10k_summary, calls[i].name)
            /\ DictGet(savings_per_10k_summary, calls[i].name)
                   = IF Active(calls[i])
                     THEN UnitSaving(calls[i].name, user_diesel_price)
                     ELSE FZero
            /\ ~Active(calls[i]) => calls[i].ret = FZero

\* a call for no vans at a mileage > 0 has returned
C8_Witness ==
    /\ pc = "returned"
    /\ calls[1].count = 0 /\ calls[1].miles > 0
    /\ FSign(UnitSaving(calls[1].name, user_diesel_price)) > 0

-----------------------------------------------------------------------------
(* Properties of process_van_type under any caller                          *)

\* C7: a call with a name that is not in the catalog raises KeyError, adds
\* nothing to the running total and records no entry for the name
C7_UnknownNameRaises ==
    [][(/\ Len(calls') = Len(calls) + 1
        /\ calls'[Len(calls')].name \notin DOMAIN DEFAULT_PARAMS)
          => /\ calls'[Len(calls')].raised = "KeyError"
             /\ pc' = "raised"
             /\ total_fleet_savings' = total_fleet_savings
             /\ savings_per_10k_summary' = savings_per_10k_summary
             /\ ~DictHas(savings_per_10k_summary', calls'[Len(calls')].name)]_vars

\* an unknown name after a call that added a saving
C7_Witness ==
    /\ pc = "raised"
    /\ Len(calls) > 1
    /\ calls[Len(calls)].name \in Unregistered
    /\ FSign(total_fleet_savings) > 0

-----------------------------------------------------------------------------
(* Properties of the helper functions                                       *)

IsFuelCall == helper.fn = "calculate_extra_fuel_cost_10k"
IsTyreCall == helper.fn = "calculate_extra_tyre_cost_10k"

\* C3: calculate_extra_fuel_cost_10k returns 0, and raises nothing, when
\* mpg_std, mpg_under or price_per_litre is <= 0, and so does
\* calculate_extra_tyre_cost_10k when lifespan_miles is <= 0
C3_DegradeToZero ==
    /\ (/\ IsFuelCall
        /\ \/ FSign(helper.mpg_std) <= 0
           \/ FSign(helper.mpg_under) <= 0
           \/ FSign(helper.price_per_litre) <= 0)
          => helper.result = Returned(FZero)
    /\ (IsTyreCall /\ FSign(helper.lifespan_miles) <= 0)
          => helper.result = Returned(FZero)

\* a zero mpg with the other arguments positive: the division is not reached
C3_Witness ==
    /\ IsFuelCall
    /\ FIsZero(helper.mpg_std)
    /\ FSign(helper.mpg_under) > 0 /\ FSign(helper.price_per_litre) > 0

\* C4: for the mpg pair of a catalog van type and a price > 0 the extra fuel
\* cost is >= 0; for the tyre cost pair of a catalog van type and a
\* lifespan > 0 the extra tyre cost is >= 0
C4_CatalogCostsNonNegative ==
    /\ (/\ IsFuelCall
        /\ FSign(helper.price_per_litre) > 0
        /\ \E v \in CatalogVans :
              /\ helper.mpg_std = DEFAULT_PARAMS[v].mpg_std
              /\ helper.mpg_under = DEFAULT_PARAMS[v].mpg_under)
          => helper.result.raised = "none" /\ FSign(helper.result.value) >= 0
    /\ (/\ IsTyreCall
        /\ FSign(helper.lifespan_miles) > 0
        /\ \E v \in CatalogVans :
              /\ helper.tyre_cost_std = DEFAULT_PARAMS[v].tyre_cost_std
              /\ helper.tyre_cost_under = DEFAULT_PARAMS[v].tyre_cost_under)
          => helper.result.raised = "none" /\ FSign(helper.result.value) >= 0

\* the tyre cost of a catalog van type at a lifespan other than the default
C4_Witness ==
    /\ IsTyreCall
    /\ FSign(helper.lifespan_miles) > 0
    /\ helper.lifespan_miles # FFromInt(DEFAULT_TYRE_LIFESPAN_MILES)
    /\ \E v \in CatalogVans :
          /\ helper.tyre_cost_std = DEFAULT_PARAMS[v].tyre_cost_std
          /\ helper.tyre_cost_under = DEFAULT_PARAMS[v].tyre_cost_under
    /\ FSign(helper.result.value) > 0

====
